---- MODULE Spec2Model ----
(***************************************************************************)
(* Model of the ETL pipeline of nicolaaggeri/ETL:                          *)
(*   src/server/app.py     Operazione (pydantic v1 model), validate_       *)
(*                         timestamp, insert_operation_data,               *)
(*                         main_etl_postgres, process_and_transfer_to_     *)
(*                         mysql and the Flask trigger endpoints           *)
(*   src/ETLPython/app.py  run_etl and its two entry points                *)
(*                                                                         *)
(* The specifications share the variables:                                 *)
(*   Spec         one run of process_and_transfer_to_mysql over the        *)
(*                staging table raw_operazione and the MySQL target, or    *)
(*                one run of main_etl_postgres over a posted list          *)
(*   SpecTrigger  the request handlers and the batch threads they start,   *)
(*                interleaved statement by statement on etl_status         *)
(*   SpecTriggerFair  SpecTrigger with every handler and every started     *)
(*                thread scheduled fairly                                  *)
(*   SpecValidate the validation by Operazione applied to a dict, and      *)
(*                applied again to its own result                          *)
(*   SpecSave     one call of save_records and the attempts of its loop    *)
(*   SpecRunEtl   one run of run_etl over the staging table RawForgiatura  *)
(***************************************************************************)
EXTENDS Integers, Sequences, FiniteSets, TLC

(***************************************************************************)
(* Bounds of the model.                                                    *)
(***************************************************************************)
MaxRows == 2        \* staging rows PENDING when the first transfer run starts
MaxRequests == 2    \* HTTP requests handled in SpecTrigger

(***************************************************************************)
(* Values.  Python's None is a value outside each modelled domain.         *)
(***************************************************************************)
None == -9999            \* None in a numeric field
NoneStr == "None"        \* None in a text field
NoTime == 0              \* None in last_run / last_success

\* datetime.utcnow() read by validate_timestamp, in minutes on a model axis
Now == 1000
\* validate_timestamp(timestamp, tolerance_minutes=60)
ToleranceMinutes == 60

\* a timestamp field: a native datetime, a text matching one of the two
\* strptime patterns (fractional: with microseconds), a text matching neither
\* pattern, or None
Native(t) == [kind |-> "native", t |-> t]
Text(t) == [kind |-> "text", t |-> t]
TextFrac(t) == [kind |-> "textfrac", t |-> t]
Garbage == [kind |-> "garbage", t |-> 0]
NoneTs == [kind |-> "none", t |-> 0]

(***************************************************************************)
(* FIELD_TO_ANOMALIA_ID and its default.                                   *)
(***************************************************************************)
DefaultAnomaliaId == 999

\* FIELD_TO_ANOMALIA_ID.get(field, 999)
FieldToAnomaliaIdGet(field) ==
    CASE field = "timestamp_fine" -> 1
      [] field = "peso_effettivo" -> 2
      [] field = "temperatura_effettiva" -> 3
      [] field = "anomalia" -> 4
      [] OTHER -> DefaultAnomaliaId

(***************************************************************************)
(* parse_timestamp / validate_timestamp.                                   *)
(* A result is [ok, value, raises]: ok = FALSE stands for the raised       *)
(* exception, which pydantic turns into an error of the field; raises      *)
(* names it: "parse" the ValueError of strptime, "tolerance" the           *)
(* ValueError of the tolerance test, "type" the TypeError of               *)
(* strptime(None, ...).                                                    *)
(***************************************************************************)
Raise(what) == [ok |-> FALSE, value |-> NoneTs, raises |-> what]
Return(ts) == [ok |-> TRUE, value |-> ts, raises |-> "none"]

parse_timestamp(ts) ==
    CASE ts.kind = "textfrac" -> Return(Native(ts.t))
      [] ts.kind = "text" -> Return(Native(ts.t))
      [] ts.kind = "none" -> Raise("type")
      [] OTHER -> Raise("parse")

\* the tolerance test with a window on both sides of now
validate_timestamp_TwoSided(ts, tolerance_minutes) ==
    LET parsed == IF ts.kind = "native" THEN Return(ts) ELSE parse_timestamp(ts)
    IN  IF ~parsed.ok THEN parsed
        ELSE IF \/ parsed.value.t > Now + tolerance_minutes
                \/ parsed.value.t < Now - tolerance_minutes
             THEN Raise("tolerance")
             ELSE parsed

validate_timestamp(ts, tolerance_minutes) ==
    LET parsed == IF ts.kind = "native" THEN Return(ts) ELSE parse_timestamp(ts)
    IN  IF ~parsed.ok THEN parsed
        ELSE IF parsed.value.t > Now + tolerance_minutes
             THEN Raise("tolerance")
             ELSE parsed

(***************************************************************************)
(* Operazione (src/server/app.py), pydantic v1.                            *)
(* Fields are validated in declaration order; `values` holds the fields    *)
(* validated so far without error.  Every field is Optional, so a None is  *)
(* accepted by the type check; the class validators of tipo_operazione,    *)
(* peso_effettivo and temperatura_effettiva still run on a None that the   *)
(* input supplies (post validators), and the pre validator of the two      *)
(* timestamps runs on every supplied value.                                *)
(***************************************************************************)
FieldOrder ==
    << "id_ordine", "codice_pezzo", "codice_macchinario", "codice_operatore",
       "timestamp_inizio", "timestamp_fine", "tipo_operazione",
       "peso_effettivo", "temperatura_effettiva", "numero_pezzi_ora",
       "tipo_fermo", "anomalia" >>

\* tipo_operazione_valido: raises unless v in {'forgiatura', 'cnc'}
tipo_operazione_valido(v) == v \in {"forgiatura", "cnc"}

\* values.get('tipo_operazione'): the field is in `values` only when valid
ValuesTipo(data) ==
    IF tipo_operazione_valido(data.tipo_operazione) THEN data.tipo_operazione
    ELSE NoneStr

\* peso_effettivo_range: TRUE when the validator returns v, FALSE when it raises
peso_effettivo_range(v, tipo) ==
    IF tipo = "forgiatura"
    THEN ~(v = None \/ ~(0 <= v /\ v <= 1000))
    ELSE TRUE

\* temperatura_effettiva_range: raises when v is None or not (v < 700 or v > 1200)
temperatura_effettiva_range(v, tipo) ==
    IF tipo = "forgiatura"
    THEN ~(v = None \/ ~(v < 700 \/ v > 1200))
    ELSE TRUE

\* anomalia: Optional[List[Anomalia]]; an entry 0 stands for an entry that is
\* no valid Anomalia (no integer id); <<>> stands for an absent, None or empty list
anomalia_valida(list) == \A i \in 1..Len(list) : list[i] > 0

\* TRUE when validating field f of data yields an error
FieldFails(data, f) ==
    CASE f = "timestamp_inizio" ->
            ~validate_timestamp(data.timestamp_inizio, ToleranceMinutes).ok
      [] f = "timestamp_fine" ->
            ~validate_timestamp(data.timestamp_fine, ToleranceMinutes).ok
      [] f = "tipo_operazione" -> ~tipo_operazione_valido(data.tipo_operazione)
      [] f = "peso_effettivo" ->
            ~peso_effettivo_range(data.peso_effettivo, ValuesTipo(data))
      [] f = "temperatura_effettiva" ->
            ~temperatura_effettiva_range(data.temperatura_effettiva, ValuesTipo(data))
      [] f = "anomalia" -> ~anomalia_valida(data.anomalia)
      [] OTHER -> FALSE

\* ve.errors(): the failing fields, in declaration order
ValidationErrors(data) ==
    SelectSeq(FieldOrder, LAMBDA f : FieldFails(data, f))

\* the message of the error of field f
ErrorMsg(f) ==
    CASE f = "tipo_operazione" -> "Tipo operazione non riconosciuto"
      [] f = "peso_effettivo" -> "Peso fuori range"
      [] f = "temperatura_effettiva" -> "Temperatura fuori range"
      [] f = "anomalia" -> "Struttura anomalia non valida"
      [] OTHER -> "timestamp non valido"

\* operazione.dict(): the validated values (timestamps parsed to datetime)
OperazioneDict(data) ==
    [data EXCEPT
        !.timestamp_inizio = validate_timestamp(data.timestamp_inizio, ToleranceMinutes).value,
        !.timestamp_fine = validate_timestamp(data.timestamp_fine, ToleranceMinutes).value]

(***************************************************************************)
(* State.                                                                  *)
(***************************************************************************)
VARIABLES
    etl_status,      \* the global etl_status of src/server/app.py
    raw_operazione,  \* staging table (PostgreSQL), committed rows
    mysql,           \* target store: committed rows, the rows pending in the
                     \* open transaction of my_conn, the AUTO_INCREMENT counter
    pc,              \* position of the running batch function
    raw_records,     \* fetchall(): the staging ids the loop iterates over
    idx,             \* position of the loop in raw_records / rows
    ret,             \* value returned by the batch function (0: none yet)
    pg_conn,         \* "none", "open" or "closed"
    my_conn,         \* "none", "open" or "closed"
    runs,            \* batch runs started so far (the reading of utcnow())
    rows,            \* the list handed to main_etl_postgres
    batch,           \* the batch function called: "none", "transfer", "ingest"
    fetched,         \* history: the connections were made and the input was read
    trace,           \* history of the run: one entry per record attempted
    wrote,           \* history: the run has issued an INSERT, UPDATE or DELETE
    app,             \* SpecTrigger: the Flask application, "server" or "ETLPython"
    req,             \* SpecTrigger: the requests, their handlers and batch threads
    vin,             \* SpecValidate: the dict handed to Operazione
    vout,            \* SpecValidate: the results of the successive validations
    save,            \* SpecSave: the call of save_records and its retry loop
    etl              \* SpecRunEtl: one run of run_etl of src/ETLPython/app.py

vars ==
    << etl_status, raw_operazione, mysql, pc, raw_records, idx, ret, pg_conn,
       my_conn, runs, rows, batch, fetched, trace, wrote, app, req, vin, vout,
       save, etl >>

\* the variables of the batch run of Spec, and those of SpecTrigger
runVars ==
    << raw_operazione, mysql, pc, raw_records, idx, ret, pg_conn, my_conn, runs,
       rows, batch, fetched, trace, wrote >>

trigVars == << app, req >>

\* the variables of SpecValidate
valVars == << vin, vout >>

\* the variable of SpecSave
saveVars == << save >>

\* the variable of SpecRunEtl
etlVars == << etl >>

\* etl_status = {'running': False, 'last_run': None, 'last_success': None,
\*               'last_error': None}
InitStatus ==
    [running |-> FALSE, last_run |-> NoTime, last_success |-> NoTime,
     last_error |-> NoneStr]

\* etl_status['running'] = True; etl_status['last_run'] = utcnow().isoformat()
EnterStatus(s, t) == [s EXCEPT !.running = TRUE, !.last_run = t]

\* the success path without etl_status['last_error'] = None
SuccessStatus_KeepError(s, t) == [s EXCEPT !.last_success = t]

\* etl_status['last_success'] = utcnow().isoformat(); etl_status['last_error'] = None
SuccessStatus(s, t) == [s EXCEPT !.last_success = t, !.last_error = NoneStr]

\* etl_status['last_error'] = str(e)
ErrorStatus(s, msg) == [s EXCEPT !.last_error = msg]

\* a finally block that leaves etl_status['running'] as it is
FinallyStatus_Skip(s) == s

\* finally: etl_status['running'] = False
FinallyStatus(s) == [s EXCEPT !.running = FALSE]

(***************************************************************************)
(* The MySQL connection: commit, rollback, close.                          *)
(***************************************************************************)
EmptyDb == [committed |-> {}, pending |-> {}, next_id |-> 1]

Execute(db, row) == [db EXCEPT !.pending = @ \cup {row}]

\* a commit that leaves the transaction open
Commit_Noop(db) == db

Commit(db) == [db EXCEPT !.committed = @ \cup db.pending, !.pending = {}]

\* a rollback that leaves the transaction as it is
Rollback_Noop(db) == db

Rollback(db) == [db EXCEPT !.pending = {}]

\* closing a connection discards its uncommitted transaction
Close(db) == [db EXCEPT !.pending = {}]

(***************************************************************************)
(* insert_operation_data(connection, cursor, data) on the connection db,   *)
(* for the staging record src (src is kept in the operazioni row only to   *)
(* tell which staging record a row came from).  fail names the statement   *)
(* that raises: "operazioni", "detail", "anomalia_data", "commit", or      *)
(* "none".  The result is the connection afterwards and the returned       *)
(* (success, error_msg, id_operazione).  An AUTO_INCREMENT value is used   *)
(* up by every attempted insert: a rollback does not give it back.         *)
(***************************************************************************)
DbErrorMsg == "database error"
UnknownTipoMsg == "Tipo operazione non riconosciuto"

OperazioniRow(id, src, data) ==
    [table |-> "operazioni", id_operazione |-> id, src |-> src,
     id_ordine |-> data.id_ordine, codice_pezzo |-> data.codice_pezzo,
     codice_macchinario |-> data.codice_macchinario,
     codice_operatore |-> data.codice_operatore,
     timestamp_inizio |-> data.timestamp_inizio,
     timestamp_fine |-> data.timestamp_fine]

ForgiaturaRow(id, data) ==
    [table |-> "forgiatura", id_operazione |-> id,
     peso_effettivo |-> data.peso_effettivo,
     temperatura_effettiva |-> data.temperatura_effettiva]

CncRow(id, data) ==
    [table |-> "cnc", id_operazione |-> id,
     numero_pezzi_ora |-> data.numero_pezzi_ora, tipo_fermo |-> data.tipo_fermo]

AnomaliaRow(anomaly_id, id, field, note) ==
    [table |-> "anomalia_operazione", id_anomalia |-> anomaly_id,
     id_operazione |-> id, field |-> field, note |-> note]

\* except Exception: connection.rollback(); return False, str(e), None
InsertFailed(db) ==
    [db |-> Rollback(db), success |-> FALSE, error_msg |-> DbErrorMsg,
     id_operazione |-> None]

\* else: return False, "Tipo operazione non riconosciuto", None
\* (no rollback: the operazioni row stays pending on the connection)
InsertUnknownTipo(db) ==
    [db |-> db, success |-> FALSE, error_msg |-> UnknownTipoMsg,
     id_operazione |-> None]

\* insert_operation_data without the commit of line 329
InsertCommit_NoCommit(db, id) ==
    [db |-> db, success |-> TRUE, error_msg |-> NoneStr, id_operazione |-> id]

\* connection.commit(); return True, None, id_operazione
InsertCommit(db, id) ==
    [db |-> Commit(db), success |-> TRUE, error_msg |-> NoneStr,
     id_operazione |-> id]

\* the rows of data['anomalia'] (lines 319-326), note 'Anomalia registrata'
DataAnomaliaRows(id, data) ==
    { AnomaliaRow(data.anomalia[i], id, "anomalia", "Anomalia registrata") :
        i \in 1..Len(data.anomalia) }

insert_operation_data(db, data, src, fail) ==
    LET id == db.next_id
        db1 == [Execute(db, OperazioniRow(id, src, data)) EXCEPT !.next_id = id + 1]
        detail == IF data.tipo_operazione = "forgiatura"
                  THEN ForgiaturaRow(id, data) ELSE CncRow(id, data)
        db2 == Execute(db1, detail)
        db3 == [db2 EXCEPT !.pending = @ \cup DataAnomaliaRows(id, data)]
    IN  IF fail = "operazioni" THEN InsertFailed([db EXCEPT !.next_id = id + 1])
        ELSE IF data.tipo_operazione \notin {"forgiatura", "cnc"}
             THEN InsertUnknownTipo(db1)
        ELSE IF fail = "detail" THEN InsertFailed(db1)
        ELSE IF fail = "anomalia_data" /\ data.anomalia # <<>> THEN InsertFailed(db2)
        ELSE IF fail = "commit" THEN InsertFailed(db3)
        ELSE InsertCommit(db3, id)

(***************************************************************************)
(* The staging table.  A row is [id_operazione, stato, data]; a deleted    *)
(* row is kept with stato "DELETED".  Every UPDATE / DELETE of the code is *)
(* followed at once by pg_conn.commit().                                   *)
(***************************************************************************)
\* an UPDATE of the state without its WHERE clause
SetStato_EveryRow(table, id, stato) ==
    [i \in DOMAIN table |-> [table[i] EXCEPT !.stato = stato]]

SetStato(table, id, stato) ==
    [i \in DOMAIN table |->
        IF table[i].id_operazione = id THEN [table[i] EXCEPT !.stato = stato]
        ELSE table[i]]

\* SELECT * FROM raw_operazione WHERE stato = 'PENDING' (ids, in table order)
SelectPending(table) ==
    LET pend == SelectSeq(table, LAMBDA r : r.stato = "PENDING")
    IN  [i \in DOMAIN pend |-> pend[i].id_operazione]

RowOf(table, id) == CHOOSE r \in { table[i] : i \in DOMAIN table } : r.id_operazione = id

(***************************************************************************)
(* One iteration of the loop of process_and_transfer_to_mysql (476-548).   *)
(***************************************************************************)
\* the list built from the first violation only
Anomalie_FirstOnly(errors) ==
    [i \in 1..(IF errors = <<>> THEN 0 ELSE 1) |->
        [id |-> FieldToAnomaliaIdGet(errors[i]), field |-> errors[i],
         message |-> errors[i] \o ": " \o ErrorMsg(errors[i])]]

\* anomalie: one {'id', 'message'} per error, id through FIELD_TO_ANOMALIA_ID,
\* message the field, a colon and the error's msg
Anomalie(errors) ==
    [i \in DOMAIN errors |->
        [id |-> FieldToAnomaliaIdGet(errors[i]), field |-> errors[i],
         message |-> errors[i] \o ": " \o ErrorMsg(errors[i])]]

NoneOf(f) ==
    CASE f \in {"timestamp_inizio", "timestamp_fine"} -> NoneTs
      [] f \in {"id_ordine", "peso_effettivo", "temperatura_effettiva",
                "numero_pezzi_ora"} -> None
      [] f = "anomalia" -> <<>>
      [] OTHER -> NoneStr

\* {**data, **{err['loc'][-1]: None for err in errors}}
Sanitize(data, errors) ==
    LET bad == { errors[i] : i \in DOMAIN errors }
    IN  [f \in DOMAIN data |-> IF f \in bad THEN NoneOf(f) ELSE data[f]]

\* operazione_dict of lines 483-496
OperazioneDictOf(data) ==
    IF ValidationErrors(data) = <<>> THEN OperazioneDict(data)
    ELSE Sanitize(data, ValidationErrors(data))

\* anomaly rows written without the identifier of the operation
AnomalieRows_NullId(id, anomalie) ==
    { AnomaliaRow(anomalie[i].id, None, anomalie[i].field, anomalie[i].message) :
        i \in DOMAIN anomalie }

\* lines 510-513: one anomalia_operazione row per anomaly, not committed here
AnomalieRows(id, anomalie) ==
    { AnomaliaRow(anomalie[i].id, id, anomalie[i].field, anomalie[i].message) :
        i \in DOMAIN anomalie }

(***************************************************************************)
(* The raw records the runs are checked on.                                *)
(***************************************************************************)
BaseData ==
    [id_ordine |-> 7, codice_pezzo |-> "P1", codice_macchinario |-> "M1",
     codice_operatore |-> "O1", timestamp_inizio |-> Native(Now - 100),
     timestamp_fine |-> Native(Now - 95), tipo_operazione |-> "cnc",
     peso_effettivo |-> None, temperatura_effettiva |-> None,
     numero_pezzi_ora |-> 12, tipo_fermo |-> NoneStr, anomalia |-> <<>>]

Forging(peso, temperatura) ==
    [BaseData EXCEPT !.tipo_operazione = "forgiatura", !.peso_effettivo = peso,
                     !.temperatura_effettiva = temperatura,
                     !.numero_pezzi_ora = None]

\* a CNC record with every field in range
CncOk == BaseData
\* a forging record with weight and temperature (900) inside [0,1000] and the band
ForgingInBand == Forging(500, 900)
\* a forging record whose temperature (500) is below the band
ForgingCold == Forging(500, 500)
\* the record of the spec's example: weight 1500, temperature 900, text timestamps
ForgingHeavy ==
    [Forging(1500, 900) EXCEPT !.timestamp_inizio = Text(Now - 100),
                               !.timestamp_fine = Text(Now - 95)]
\* an operation type that is neither forgiatura nor cnc
UnknownTipo == [BaseData EXCEPT !.tipo_operazione = "tornitura"]
\* a CNC record whose end timestamp is beyond now + tolerance
CncFuture == [BaseData EXCEPT !.timestamp_fine = Native(Now + ToleranceMinutes + 1)]

StagingSamples ==
    { CncOk, ForgingInBand, ForgingCold, ForgingHeavy, UnknownTipo, CncFuture }

\* the staging tables of n PENDING rows, with the ids 1..n of the serial column
StagingTables(n) ==
    { [i \in 1..n |-> [id_operazione |-> i, stato |-> "PENDING",
                        id_anomalia |-> None, data |-> f[i]]] :
        f \in [1..n -> StagingSamples] }

\* records of a list posted to /insert-postgres or /run-etl: with a list of
\* anomalies, and with a first anomaly that carries no 'id'
CncWithAnomalia == [BaseData EXCEPT !.anomalia = <<4>>]
CncBadAnomalia == [BaseData EXCEPT !.anomalia = <<0>>]

PostedSamples == { CncOk, ForgingHeavy, CncWithAnomalia, CncBadAnomalia }

PostedLists(n) == UNION { [1..k -> PostedSamples] : k \in 0..n }

(***************************************************************************)
(* process_and_transfer_to_mysql, step by step.                            *)
(***************************************************************************)
\* lines 447-455
TransferEnter ==
    /\ pc = "idle"
    /\ UNCHANGED << trigVars, valVars, saveVars, etlVars >>
    /\ batch' = "transfer"
    /\ runs' = runs + 1
    /\ etl_status' = EnterStatus(etl_status, runs + 1)
    /\ pc' = "connect"
    /\ UNCHANGED << raw_operazione, mysql, raw_records, idx, ret, pg_conn,
                    my_conn, rows, fetched, trace, wrote >>

\* an outer except that does not store the error
OuterExcept_NoError(s, msg) == s

\* lines 555-559 (and 429-433): the outer except
OuterExcept(s, msg) == ErrorStatus(s, msg)

\* lines 457-474: connect to both stores and fetch the PENDING rows; fail names
\* the call that raises ("pg", "mysql", "select") or is "none"
TransferConnect(fail) ==
    /\ pc = "connect"
    /\ UNCHANGED << trigVars, valVars, saveVars, etlVars >>
    /\ batch = "transfer"
    /\ pg_conn' = IF fail = "pg" THEN "none" ELSE "open"
    /\ my_conn' = IF fail \in {"pg", "mysql"} THEN "none" ELSE "open"
    /\ IF fail = "none"
       THEN /\ raw_records' = SelectPending(raw_operazione)
            /\ fetched' = TRUE
            /\ pc' = "loop"
            /\ UNCHANGED << etl_status, ret >>
       ELSE /\ etl_status' = OuterExcept(etl_status, DbErrorMsg)
            /\ ret' = 500
            /\ pc' = "finally"
            /\ UNCHANGED << raw_records, fetched >>
    /\ UNCHANGED << raw_operazione, mysql, idx, runs, rows, batch, trace, wrote >>

\* lines 544-548: the except of one record: both connections are rolled back
\* (every staging statement is committed at once, so pg_conn.rollback() undoes
\* nothing) and the loop goes on
RecordExcept(db) == Rollback(db)

\* lines 499-542 for one staging row: the load, then the anomaly rows and the
\* staging update.  failMy names the MySQL statement that raises ("operazioni",
\* "detail", "commit" inside insert_operation_data, "anomalia_operazione" at
\* line 513), failPg the staging statement that raises ("update": the UPDATE
\* of line 522 or 541, "delete": the DELETE of line 530); "none" otherwise.
\* Result: the MySQL connection and the staging table afterwards, what
\* insert_operation_data returned, and how the iteration ended: "loaded",
\* "error" (the else of line 533) or "exception" (the except of line 544).
LoadRecord(db, table, record, failMy, failPg) ==
    LET data == record.data
        id == record.id_operazione
        anomalie == Anomalie(ValidationErrors(data))
        res == insert_operation_data(db, OperazioneDictOf(data), id, failMy)
        withAnomalie ==
            [res.db EXCEPT !.pending = @ \cup AnomalieRows(res.id_operazione, anomalie)]
    IN  IF res.success
        THEN IF failMy = "anomalia_operazione" /\ anomalie # <<>>
             THEN [db |-> RecordExcept(res.db), table |-> table,
                   outcome |-> "exception", res |-> res]
             ELSE IF failPg = "update"
             THEN [db |-> RecordExcept(withAnomalie), table |-> table,
                   outcome |-> "exception", res |-> res]
             ELSE IF failPg = "delete"
             THEN [db |-> RecordExcept(withAnomalie),
                   table |-> SetStato(table, id, "PROCESSED"),
                   outcome |-> "exception", res |-> res]
             ELSE [db |-> withAnomalie, table |-> SetStato(table, id, "DELETED"),
                   outcome |-> "loaded", res |-> res]
        ELSE IF failPg = "update"
             THEN [db |-> RecordExcept(res.db), table |-> table,
                   outcome |-> "exception", res |-> res]
             ELSE [db |-> res.db, table |-> SetStato(table, id, "ERROR"),
                   outcome |-> "error", res |-> res]

\* the failure points that exist on the path the record takes
FailureApplies(record, failMy, failPg) ==
    LET od == OperazioneDictOf(record.data)
        known == od.tipo_operazione \in {"forgiatura", "cnc"}
        n == Len(ValidationErrors(record.data))
    IN  /\ failMy \in {"detail", "commit", "anomalia_operazione"} => known
        /\ failMy = "anomalia_operazione" => n > 0 /\ failPg = "none"
        /\ failPg = "delete" => failMy = "none" /\ known

FailMy == {"none", "operazioni", "detail", "commit", "anomalia_operazione"}
FailPg == {"none", "update", "delete"}

\* one entry of the history of a run
TraceEntry(src, data, errors, success, outcome, id, fault) ==
    [src |-> src, data |-> data, errors |-> errors, success |-> success,
     outcome |-> outcome, id_operazione |-> id, fault |-> fault]

\* lines 476-548: one iteration of the loop
TransferRecord(failMy, failPg) ==
    /\ pc = "loop"
    /\ UNCHANGED << trigVars, valVars, saveVars, etlVars >>
    /\ batch = "transfer"
    /\ idx <= Len(raw_records)
    /\ LET record == RowOf(raw_operazione, raw_records[idx])
           r == LoadRecord(mysql, raw_operazione, record, failMy, failPg)
       IN  /\ FailureApplies(record, failMy, failPg)
           /\ mysql' = r.db
           /\ raw_operazione' = r.table
           /\ etl_status' = IF r.outcome = "exception"
                            THEN ErrorStatus(etl_status, DbErrorMsg)
                            ELSE etl_status
           /\ trace' = Append(trace,
                  TraceEntry(record.id_operazione, record.data,
                             ValidationErrors(record.data), r.res.success,
                             r.outcome, r.res.id_operazione,
                             failMy # "none" \/ failPg # "none"))
    /\ wrote' = TRUE
    /\ idx' = idx + 1
    /\ UNCHANGED << pc, raw_records, ret, pg_conn, my_conn, runs, rows, batch,
                    fetched >>

\* lines 550-553: the loop is over
TransferSuccess ==
    /\ pc = "loop"
    /\ UNCHANGED << trigVars, valVars, saveVars, etlVars >>
    /\ batch = "transfer"
    /\ idx > Len(raw_records)
    /\ etl_status' = SuccessStatus(etl_status, runs)
    /\ ret' = 200
    /\ pc' = "finally"
    /\ UNCHANGED << raw_operazione, mysql, raw_records, idx, pg_conn, my_conn,
                    runs, rows, batch, fetched, trace, wrote >>

\* lines 562 and 436: the first statement of the finally block
BatchFinally ==
    /\ pc = "finally"
    /\ UNCHANGED << trigVars, valVars, saveVars, etlVars >>
    /\ etl_status' = FinallyStatus(etl_status)
    /\ pc' = "close"
    /\ UNCHANGED << raw_operazione, mysql, raw_records, idx, ret, pg_conn,
                    my_conn, runs, rows, batch, fetched, trace, wrote >>

CloseConn(c) == IF c = "open" THEN "closed" ELSE c

\* lines 563-573 and 437-442: the cursors and connections are closed and the
\* function returns
BatchClose ==
    /\ pc = "close"
    /\ UNCHANGED << trigVars, valVars, saveVars, etlVars >>
    /\ pg_conn' = CloseConn(pg_conn)
    /\ my_conn' = CloseConn(my_conn)
    /\ mysql' = Close(mysql)
    /\ pc' = "returned"
    /\ UNCHANGED << etl_status, raw_operazione, raw_records, idx, ret, runs,
                    rows, batch, fetched, trace, wrote >>

(***************************************************************************)
(* main_etl_postgres(rows), step by step.                                  *)
(***************************************************************************)
\* lines 375-381; the staging table of the model holds at most MaxRows rows
IngestEnter(list) ==
    /\ pc = "idle"
    /\ UNCHANGED << trigVars, valVars, saveVars, etlVars >>
    /\ Len(raw_operazione) + Len(list) <= MaxRows
    /\ batch' = "ingest"
    /\ rows' = list
    /\ runs' = runs + 1
    /\ etl_status' = EnterStatus(etl_status, runs + 1)
    /\ pc' = "connect"
    /\ UNCHANGED << raw_operazione, mysql, raw_records, idx, ret, pg_conn,
                    my_conn, fetched, trace, wrote >>

\* lines 383-386: fail is "pg" when connect_to_db_postgres raises
IngestConnect(fail) ==
    /\ pc = "connect"
    /\ UNCHANGED << trigVars, valVars, saveVars, etlVars >>
    /\ batch = "ingest"
    /\ IF fail = "none"
       THEN /\ pg_conn' = "open"
            /\ fetched' = TRUE
            /\ pc' = "loop"
            /\ UNCHANGED << etl_status, ret >>
       ELSE /\ etl_status' = OuterExcept(etl_status, DbErrorMsg)
            /\ ret' = 500
            /\ pc' = "finally"
            /\ UNCHANGED << pg_conn, fetched >>
    /\ UNCHANGED << raw_operazione, mysql, raw_records, idx, my_conn, runs,
                    rows, batch, trace, wrote >>

\* line 408: data['anomalia'][0]['id'] if data.get('anomalia') else None;
\* [ok |-> FALSE] when the first entry has no 'id' (KeyError)
FirstAnomaliaId(data) ==
    IF data.anomalia = <<>> THEN [ok |-> TRUE, id |-> None]
    ELSE IF data.anomalia[1] > 0 THEN [ok |-> TRUE, id |-> data.anomalia[1]]
    ELSE [ok |-> FALSE, id |-> None]

\* an INSERT whose row never becomes a committed row of the staging table
InsertRaw_Uncommitted(table, data) == table

\* lines 414-415: INSERT INTO raw_operazione ...; pg_conn.commit().  The row
\* gets the next value of the serial column and the default stato 'PENDING'.
InsertRaw(table, data) ==
    Append(table,
           [id_operazione |-> Len(table) + 1, stato |-> "PENDING",
            id_anomalia |-> FirstAnomaliaId(data).id,
            data |-> [data EXCEPT !.anomalia = <<>>]])

\* the except of lines 418-422 without its `return 500`: the loop goes on
IngestExceptPc_NoReturn == "loop"

\* line 422: `return 500` leaves the loop for the finally block
IngestExceptPc == "finally"

\* lines 396-422: one iteration; fail names the statement that raises
\* ("insert": line 414, "commit": line 415) or is "none"
IngestRecord(fail) ==
    /\ pc = "loop"
    /\ UNCHANGED << trigVars, valVars, saveVars, etlVars >>
    /\ batch = "ingest"
    /\ idx <= Len(rows)
    /\ LET data == rows[idx]
           raises == ~FirstAnomaliaId(data).ok \/ fail # "none"
       IN  /\ ~FirstAnomaliaId(data).ok => fail = "none"
           /\ wrote' = (wrote \/ FirstAnomaliaId(data).ok)
           /\ trace' = Append(trace,
                  TraceEntry(idx, data, <<>>, ~raises,
                             IF raises THEN "exception" ELSE "loaded",
                             None, fail # "none"))
           /\ IF raises
              THEN \* lines 418-422: rollback, last_error, return 500
                   /\ etl_status' = ErrorStatus(etl_status, DbErrorMsg)
                   /\ ret' = 500
                   /\ pc' = IngestExceptPc
                   /\ UNCHANGED raw_operazione
              ELSE /\ raw_operazione' = InsertRaw(raw_operazione, data)
                   /\ UNCHANGED << etl_status, ret, pc >>
    /\ idx' = idx + 1
    /\ UNCHANGED << mysql, raw_records, pg_conn, my_conn, runs, rows, batch,
                    fetched >>

\* lines 424-427: the loop is over
IngestSuccess ==
    /\ pc = "loop"
    /\ UNCHANGED << trigVars, valVars, saveVars, etlVars >>
    /\ batch = "ingest"
    /\ idx > Len(rows)
    /\ etl_status' = SuccessStatus(etl_status, runs)
    /\ ret' = 200
    /\ pc' = "finally"
    /\ UNCHANGED << raw_operazione, mysql, raw_records, idx, pg_conn, my_conn,
                    runs, rows, batch, fetched, trace, wrote >>

(***************************************************************************)
(* Spec: one batch run, of either function, from a staging table of up to  *)
(* MaxRows PENDING rows and an etl_status as earlier runs can have left it *)
(* (no run yet, a run that succeeded, a run that failed).                  *)
(***************************************************************************)
\* vin while no validation is under way
NoInput == [data |-> BaseData, absent |-> {}]

\* save_records has not been called
NoSave ==
    [pc |-> "idle", retries |-> 0, records |-> {}, attempt |-> 0, connected |-> TRUE,
     result |-> "none", attempts |-> 0, failed |-> 0, rollbacks |-> 0, commits |-> 0,
     log |-> <<>>]

\* run_etl has not been called
NoEtl ==
    [pc |-> "idle", colnames |-> {}, raw |-> <<>>, raw_data |-> <<>>,
     transformed_data |-> <<>>, target |-> EmptyDb, pg_conn |-> "none",
     pg_cursor |-> "none", my_conn |-> "none", my_cursor |-> "none",
     fk |-> "untouched"]

PriorStatuses ==
    { InitStatus,
      [running |-> FALSE, last_run |-> 1, last_success |-> 1, last_error |-> NoneStr],
      [running |-> FALSE, last_run |-> 1, last_success |-> NoTime,
       last_error |-> DbErrorMsg] }

Init ==
    /\ etl_status \in PriorStatuses
    /\ runs = etl_status.last_run
    /\ raw_operazione \in UNION { StagingTables(n) : n \in 0..MaxRows }
    /\ mysql = EmptyDb
    /\ pc = "idle"
    /\ raw_records = <<>>
    /\ idx = 1
    /\ ret = 0
    /\ pg_conn = "none"
    /\ my_conn = "none"
    /\ rows = <<>>
    /\ batch = "none"
    /\ fetched = FALSE
    /\ trace = <<>>
    /\ wrote = FALSE
    /\ app = "server"
    /\ req = <<>>
    /\ vin = NoInput
    /\ vout = <<>>
    /\ save = NoSave
    /\ etl = NoEtl

Next ==
    \/ TransferEnter
    \/ \E fail \in {"none", "pg", "mysql", "select"} : TransferConnect(fail)
    \/ \E failMy \in FailMy, failPg \in FailPg : TransferRecord(failMy, failPg)
    \/ TransferSuccess
    \/ \E list \in PostedLists(MaxRows) : IngestEnter(list)
    \/ \E fail \in {"none", "pg"} : IngestConnect(fail)
    \/ \E fail \in {"none", "insert", "commit"} : IngestRecord(fail)
    \/ IngestSuccess
    \/ BatchFinally
    \/ BatchClose

Spec == Init /\ [][Next]_vars

(***************************************************************************)
(* SpecTrigger: the HTTP entry points and the batches they start.          *)
(*                                                                         *)
(* Flask handles requests on threads, and trigger_etl / process_transfer   *)
(* start the batch on a Thread of its own, so the statements of handlers   *)
(* and batches interleave on the global etl_status.  Each application has  *)
(* its own etl_status; app says which one the requests go to.  A batch is  *)
(* reduced to the statements that touch etl_status and the connections:    *)
(*   main_etl_postgres, process_and_transfer_to_mysql:                     *)
(*       entry -> body -> finally (running = False) -> close -> done       *)
(*   run_etl (ETLPython):                                                  *)
(*       entry -> body -> [close] -> last (running = False) -> done        *)
(* Times are request numbers.                                              *)
(***************************************************************************)
Endpoints(a) ==
    IF a = "server" THEN {"/run-etl", "/process-transfer", "/insert-postgres"}
    ELSE {"/run-etl", "/run"}

\* the endpoints whose handler starts with `if etl_status['running']: return 400`
\* (server lines 784 and 828, ETLPython line 189)
ChecksRunning(a, endpoint) == endpoint \in {"/run-etl", "/process-transfer"}

\* the endpoints that read a JSON body and require a list (lines 788-790, 808-812)
ReadsBody(a, endpoint) == a = "server" /\ endpoint \in {"/run-etl", "/insert-postgres"}

\* the batch function behind an endpoint
TargetOf(a, endpoint) ==
    IF a = "ETLPython" THEN "run_etl"
    ELSE IF endpoint = "/process-transfer" THEN "process_and_transfer_to_mysql"
    ELSE "main_etl_postgres"

\* the endpoints that start the batch on a Thread and answer 202 at once
\* (the others call the batch function and answer when it has returned)
StartsThread(a, endpoint) == endpoint \in {"/run-etl", "/process-transfer"}

NewRequest(endpoint, body, running) ==
    [endpoint |-> endpoint, body |-> body, hpc |-> "start", response |-> 0,
     reason |-> "", arrived_running |-> running, fn |-> "none", bpc |-> "none",
     conn |-> "none", ret |-> 0, cleared |-> FALSE, fk |-> "untouched",
     fk_disabled |-> FALSE]

\* return jsonify({'status': '... già in esecuzione.'}), 400
Rejected(r, why) == [r EXCEPT !.hpc = "done", !.response = 400, !.reason = why]

\* except Exception: return jsonify({'error': 'Errore del server interno.'}), 500
\* (lines 797-799, 819-821)
ServerError(r) == [r EXCEPT !.hpc = "done", !.response = 500, !.reason = "internal"]

\* the bodies a request can carry: a JSON list, JSON that is no list, and bytes
\* that are no JSON, on which request.get_json() raises
Bodies == {"list", "other", "unparsable"}

\* a request arrives and its handler runs up to the test of etl_status['running']
Arrive(endpoint, body) ==
    /\ Len(req) < MaxRequests
    /\ endpoint \in Endpoints(app)
    /\ body = "list" \/ ReadsBody(app, endpoint)
    /\ LET r == NewRequest(endpoint, body, etl_status.running)
       IN  req' = Append(req,
                IF ChecksRunning(app, endpoint) /\ etl_status.running
                THEN Rejected(r, "running") ELSE r)
    /\ UNCHANGED << etl_status, app >>
    /\ UNCHANGED << runVars, valVars, saveVars, etlVars >>

\* the handler after the test: the body is read, then the batch is started on
\* a Thread (202) or called in the handler
HandlerStart(i) ==
    /\ i \in DOMAIN req
    /\ req[i].hpc = "start"
    /\ LET r == req[i]
           fn == TargetOf(app, r.endpoint)
       IN  req' = [req EXCEPT ![i] =
                IF ReadsBody(app, r.endpoint) /\ r.body = "unparsable"
                THEN ServerError(r)
                ELSE IF ReadsBody(app, r.endpoint) /\ r.body # "list"
                THEN Rejected(r, "malformed")
                ELSE IF StartsThread(app, r.endpoint)
                THEN [r EXCEPT !.hpc = "done", !.response = 202, !.fn = fn,
                               !.bpc = "entry"]
                ELSE [r EXCEPT !.hpc = "wait", !.fn = fn, !.bpc = "entry"]]
    /\ UNCHANGED << etl_status, app >>
    /\ UNCHANGED << runVars, valVars, saveVars, etlVars >>

\* the first two statements of a batch function
ThreadEntry(i) ==
    /\ i \in DOMAIN req
    /\ req[i].bpc = "entry"
    /\ etl_status' = EnterStatus(etl_status, i)
    /\ req' = [req EXCEPT ![i].bpc = "body"]
    /\ UNCHANGED app
    /\ UNCHANGED << runVars, valVars, saveVars, etlVars >>

BodyOutcomes(fn) ==
    CASE fn = "main_etl_postgres" -> {"ok", "record_error", "connect_error"}
      [] fn = "process_and_transfer_to_mysql" -> {"ok", "connect_error"}
      [] OTHER -> {"ok", "load_error", "update_error", "extract_error",
                   "connect_error"}

\* FOREIGN_KEY_CHECKS of the MySQL session of a batch when its try block is
\* left: run_etl sets it to 0 at line 117 and back to 1 at line 127, after the
\* commit of the load; the batch functions of the server never set it
\* ("untouched": the session default, checks on)
FkAfterBody(fn, outcome) ==
    IF fn # "run_etl" THEN "untouched"
    ELSE CASE outcome \in {"ok", "update_error"} -> "on"
           [] outcome = "load_error" -> "off"
           [] OTHER -> "untouched"

\* the try block of a batch function up to its finally: the connections, the
\* loop, and the status fields the path taken stores.
\*   ok             the loop completed (a record that fails inside
\*                  process_and_transfer_to_mysql does not leave this path)
\*   record_error   main_etl_postgres, lines 418-422
\*   load_error     run_etl, executemany or my_conn.commit() raises (lines
\*                  123-124), caught at line 150
\*   update_error   run_etl, the UPDATE of the staging rows or its commit
\*                  raises (lines 143-144), caught at line 156
\*   extract_error  run_etl, an exception of lines 85-113, caught at line 181
\*   connect_error  a connection could not be made
ThreadBody(i, outcome) ==
    /\ i \in DOMAIN req
    /\ req[i].bpc = "body"
    /\ outcome \in BodyOutcomes(req[i].fn)
    /\ etl_status' = IF outcome = "ok" THEN SuccessStatus(etl_status, i)
                     ELSE ErrorStatus(etl_status, DbErrorMsg)
    /\ req' = [req EXCEPT ![i] =
            [@ EXCEPT !.conn = IF outcome = "connect_error" THEN "none" ELSE "open",
                      !.ret = IF outcome = "ok" THEN 200 ELSE 500,
                      !.fk = FkAfterBody(req[i].fn, outcome),
                      !.fk_disabled = FkAfterBody(req[i].fn, outcome) # "untouched",
                      !.bpc = IF req[i].fn # "run_etl" THEN "finally"
                              ELSE IF outcome \in {"ok", "load_error", "update_error"}
                              THEN "close"
                              ELSE "last"]]
    /\ UNCHANGED app
    /\ UNCHANGED << runVars, valVars, saveVars, etlVars >>

\* server lines 436 and 562: the first statement of the finally block
ThreadFinally(i) ==
    /\ i \in DOMAIN req
    /\ req[i].bpc = "finally"
    /\ etl_status' = FinallyStatus(etl_status)
    /\ req' = [req EXCEPT ![i].bpc = "close",
                          ![i].cleared = ~FinallyStatus(etl_status).running]
    /\ UNCHANGED app
    /\ UNCHANGED << runVars, valVars, saveVars, etlVars >>

\* the cursors and connections are closed: server lines 437-442 and 563-573
\* (then the function returns), ETLPython lines 166-179
ThreadClose(i) ==
    /\ i \in DOMAIN req
    /\ req[i].bpc = "close"
    /\ req' = [req EXCEPT ![i].conn = CloseConn(req[i].conn),
                          ![i].bpc = IF req[i].fn = "run_etl" THEN "last" ELSE "done"]
    /\ UNCHANGED << etl_status, app >>
    /\ UNCHANGED << runVars, valVars, saveVars, etlVars >>

\* ETLPython line 185: etl_status['running'] = False, the last statement of run_etl
RunEtlLast(i) ==
    /\ i \in DOMAIN req
    /\ req[i].bpc = "last"
    /\ etl_status' = FinallyStatus(etl_status)
    /\ req' = [req EXCEPT ![i].bpc = "done",
                          ![i].cleared = ~FinallyStatus(etl_status).running]
    /\ UNCHANGED app
    /\ UNCHANGED << runVars, valVars, saveVars, etlVars >>

\* the handler of /insert-postgres (lines 814-818) or /run (line 206) answers
\* once the batch function it called has returned
HandlerReturn(i) ==
    /\ i \in DOMAIN req
    /\ req[i].hpc = "wait"
    /\ req[i].bpc = "done"
    /\ req' = [req EXCEPT ![i].hpc = "done",
                          ![i].response = IF app = "server" THEN req[i].ret ELSE 200]
    /\ UNCHANGED << etl_status, app >>
    /\ UNCHANGED << runVars, valVars, saveVars, etlVars >>

InitTrigger ==
    /\ app \in {"server", "ETLPython"}
    /\ req = <<>>
    /\ etl_status = InitStatus
    /\ raw_operazione = <<>>
    /\ mysql = EmptyDb
    /\ pc = "idle"
    /\ raw_records = <<>>
    /\ idx = 1
    /\ ret = 0
    /\ pg_conn = "none"
    /\ my_conn = "none"
    /\ runs = 0
    /\ rows = <<>>
    /\ batch = "none"
    /\ fetched = FALSE
    /\ trace = <<>>
    /\ wrote = FALSE
    /\ vin = NoInput
    /\ vout = <<>>
    /\ save = NoSave
    /\ etl = NoEtl

Requests == 1..MaxRequests

\* a step of a handler or of a batch that has been started
Step(i) ==
    \/ HandlerStart(i)
    \/ ThreadEntry(i)
    \/ \E outcome \in {"ok", "record_error", "load_error", "update_error",
                       "extract_error", "connect_error"} : ThreadBody(i, outcome)
    \/ ThreadFinally(i)
    \/ ThreadClose(i)
    \/ RunEtlLast(i)
    \/ HandlerReturn(i)

NextTrigger ==
    \/ \E endpoint \in {"/run-etl", "/process-transfer", "/insert-postgres", "/run"},
          body \in Bodies : Arrive(endpoint, body)
    \/ \E i \in Requests : Step(i)

SpecTrigger == InitTrigger /\ [][NextTrigger]_vars

\* every handler and every started thread keeps being scheduled, and the
\* database calls of a batch return
SpecTriggerFair == SpecTrigger /\ \A i \in Requests : WF_vars(Step(i))

(***************************************************************************)
(* SpecValidate: the validation by Operazione as a function of its input.  *)
(*                                                                         *)
(* vin.data holds the values of the keys, vin.absent the keys the dict     *)
(* does not have.  An absent key takes the default None of its field and   *)
(* pydantic v1 runs no validator on it (no validator is declared with      *)
(* always=True); a key that is present with the value None goes through    *)
(* the validators of its field.  The clock (Now) does not move.            *)
(***************************************************************************)
MaxValidations == 3   \* validations applied in a row to one input

\* the dict as the model sees it: an absent key reads as the default None
Supplied(data, absent) ==
    [f \in DOMAIN data |-> IF f \in absent THEN NoneOf(f) ELSE data[f]]

\* Operazione on the dict: the errors of ve.errors(), or operazione.dict()
ValidateModel(data, absent) ==
    LET d == Supplied(data, absent)
        errors == SelectSeq(FieldOrder, LAMBDA f : f \notin absent /\ FieldFails(d, f))
    IN  [errors |-> errors,
         dict |-> IF errors = <<>> THEN OperazioneDict(d) ELSE d]

TipoValues == {"forgiatura", "cnc", "tornitura", NoneStr}
PesoValues == {None, -1, 0, 500, 1000, 1001}
TemperaturaValues == {None, 699, 700, 900, 1200, 1201}
TimestampValues ==
    { Native(Now - 900), Native(Now - 100), Text(Now - 100), TextFrac(Now - 100),
      Native(Now + ToleranceMinutes), Native(Now + ToleranceMinutes + 1),
      Text(Now + ToleranceMinutes + 1), Garbage, NoneTs }
AbsentSets ==
    SUBSET {"tipo_operazione", "peso_effettivo", "temperatura_effettiva",
            "timestamp_fine"}

\* the identifying fields, and what a dict can do with one of them: carry it,
\* carry it as None, or lack the key
IdentifyingFields ==
    {"id_ordine", "codice_pezzo", "codice_macchinario", "codice_operatore"}

IdCases ==
    { [field |-> "id_ordine", how |-> "present"] } \cup
    { [field |-> f, how |-> h] : f \in IdentifyingFields, h \in {"null", "absent"} }

ValidateInputs ==
    { [data |-> [BaseData EXCEPT !.tipo_operazione = tipo, !.peso_effettivo = peso,
                                 !.temperatura_effettiva = temperatura,
                                 !.timestamp_fine = ts,
                                 ![id.field] = IF id.how = "present" THEN @
                                               ELSE NoneOf(id.field)],
       absent |-> absent \cup (IF id.how = "absent" THEN {id.field} ELSE {})] :
        tipo \in TipoValues, peso \in PesoValues, temperatura \in TemperaturaValues,
        ts \in TimestampValues, absent \in AbsentSets, id \in IdCases }

\* the input is validated
Validate ==
    /\ vout = <<>>
    /\ vout' = << ValidateModel(vin.data, vin.absent) >>
    /\ UNCHANGED << vin, etl_status, runVars, trigVars, saveVars, etlVars >>

\* operazione.dict() of the validated record is validated again
Revalidate ==
    /\ vout # <<>>
    /\ Len(vout) < MaxValidations
    /\ vout[Len(vout)].errors = <<>>
    /\ vout' = Append(vout, ValidateModel(vout[Len(vout)].dict, {}))
    /\ UNCHANGED << vin, etl_status, runVars, trigVars, saveVars, etlVars >>

InitValidate ==
    /\ vin \in ValidateInputs
    /\ vout = <<>>
    /\ save = NoSave
    /\ etl = NoEtl
    /\ app = "server"
    /\ req = <<>>
    /\ etl_status = InitStatus
    /\ raw_operazione = <<>>
    /\ mysql = EmptyDb
    /\ pc = "idle"
    /\ raw_records = <<>>
    /\ idx = 1
    /\ ret = 0
    /\ pg_conn = "none"
    /\ my_conn = "none"
    /\ runs = 0
    /\ rows = <<>>
    /\ batch = "none"
    /\ fetched = FALSE
    /\ trace = <<>>
    /\ wrote = FALSE

NextValidate ==
    \/ Validate
    \/ Revalidate

SpecValidate == InitValidate /\ [][NextValidate]_vars

(***************************************************************************)
(* SpecSave: save_records (src/server/app.py 350-370).                     *)
(* One call on the connection of `mysql`, which may hold rows the caller   *)
(* has executed and not committed.  An attempt is one iteration of the     *)
(* loop: executemany and commit, or the except clause.  A failure is a     *)
(* mysql.connector.Error raised by executemany (the statement inserts      *)
(* nothing), raised by commit (the rows stay pending), or the loss of the  *)
(* connection (is_connected() is False, the server discards the open       *)
(* transaction, and every later call on the connection fails too).         *)
(* save.log is the history of the outcomes of the attempts.                *)
(***************************************************************************)
MaxRetries == 3       \* largest value passed for retries
DefaultRetries == 3   \* retries=3

\* the values of the parameter retries
RetriesArgs == (0..MaxRetries) \cup {DefaultRetries}

SaveRow(k) == [table |-> "saved", k |-> k]

\* the lists passed as records
RecordsArgs == { {SaveRow(1)}, {SaveRow(1), SaveRow(2)} }

\* a row the caller executed on the connection before the call
CallerRow == [table |-> "caller", k |-> 0]

\* cursor.executemany(query, records)
ExecuteMany(db, records) == [db EXCEPT !.pending = @ \cup records]

AttemptOutcomes == {"ok", "execute_error", "commit_error", "lost"}

\* the call: lines 350-355, the loop starts at attempt 1
SaveEnter(retries, records) ==
    /\ save.pc = "idle"
    /\ save' = [save EXCEPT !.pc = "loop", !.retries = retries, !.records = records,
                            !.attempt = 1]
    /\ UNCHANGED << etl_status, runVars, trigVars, valVars, etlVars >>

\* the except clause, lines 362-368
SaveExcept(s, connected, outcome) ==
    [s EXCEPT !.log = Append(@, outcome),
              !.failed = @ + 1,
              !.attempts = @ + 1,
              !.connected = connected,
              !.rollbacks = IF connected THEN @ + 1 ELSE @,
              !.pc = IF s.attempt = s.retries THEN "done" ELSE "loop",
              !.result = IF s.attempt = s.retries THEN "raised" ELSE @,
              !.attempt = IF s.attempt = s.retries THEN @ ELSE @ + 1]

\* lines 357-368: one iteration of the loop
SaveAttempt(outcome) ==
    /\ save.pc = "loop"
    /\ save.attempt <= save.retries
    /\ ~save.connected => outcome = "lost"
    /\ CASE outcome = "ok" ->
              /\ mysql' = Commit(ExecuteMany(mysql, save.records))
              /\ save' = [save EXCEPT !.pc = "done", !.result = "True",
                                      !.attempts = @ + 1, !.commits = @ + 1,
                                      !.log = Append(@, outcome)]
         [] outcome = "execute_error" ->
              /\ mysql' = Rollback(mysql)
              /\ save' = SaveExcept(save, TRUE, outcome)
         [] outcome = "commit_error" ->
              /\ mysql' = Rollback(ExecuteMany(mysql, save.records))
              /\ save' = SaveExcept(save, TRUE, outcome)
         [] OTHER ->
              /\ mysql' = Close(mysql)
              /\ save' = SaveExcept(save, FALSE, outcome)
    /\ UNCHANGED << etl_status, raw_operazione, pc, raw_records, idx, ret, pg_conn,
                    my_conn, runs, rows, batch, fetched, trace, wrote, trigVars,
                    valVars, etlVars >>

\* line 370: the loop ended without an attempt returning or raising
SaveReturnFalse ==
    /\ save.pc = "loop"
    /\ save.attempt > save.retries
    /\ save' = [save EXCEPT !.pc = "done", !.result = "False"]
    /\ UNCHANGED << etl_status, runVars, trigVars, valVars, etlVars >>

InitSave ==
    /\ save = NoSave
    /\ etl = NoEtl
    /\ mysql \in { EmptyDb, [EmptyDb EXCEPT !.pending = {CallerRow}] }
    /\ vin = NoInput
    /\ vout = <<>>
    /\ app = "server"
    /\ req = <<>>
    /\ etl_status = InitStatus
    /\ raw_operazione = <<>>
    /\ pc = "idle"
    /\ raw_records = <<>>
    /\ idx = 1
    /\ ret = 0
    /\ pg_conn = "none"
    /\ my_conn = "open"
    /\ runs = 0
    /\ rows = <<>>
    /\ batch = "none"
    /\ fetched = FALSE
    /\ trace = <<>>
    /\ wrote = FALSE

NextSave ==
    \/ \E retries \in RetriesArgs, records \in RecordsArgs : SaveEnter(retries, records)
    \/ \E outcome \in AttemptOutcomes : SaveAttempt(outcome)
    \/ SaveReturnFalse

SpecSave == InitSave /\ [][NextSave]_vars

(***************************************************************************)
(* SpecRunEtl: run_etl (src/ETLPython/app.py 57-185), step by step.        *)
(* etl.raw is the staging table RawForgiatura, etl.colnames the columns    *)
(* the SELECT returns (the keys of every dict of the transformation),      *)
(* etl.target the table Forgiatura on the MySQL connection.                *)
(***************************************************************************)
\* the columns of RawForgiatura; the transformation reads NeededKeys
Columns ==
    {"id", "id_pezzo", "peso_effettivo", "temperatura_effettiva",
     "timestamp_ricevuto", "id_macchina", "stato_processo"}

NeededKeys ==
    {"id_pezzo", "peso_effettivo", "temperatura_effettiva", "timestamp_ricevuto",
     "id_macchina"}

\* the column sets of the staging table: complete, or lacking one needed key
ColnamesSets ==
    { Columns, Columns \ {"timestamp_ricevuto"}, Columns \ {"id_macchina"} }

RawRow(id, ts) == [id |-> id, stato_processo |-> "PENDING", timestamp_ricevuto |-> ts]

\* timestamp_ricevuto: a datetime, a text '%Y-%m-%d %H:%M:%S', a text with
\* microseconds
RawTimestamps == { Native(Now - 100), Text(Now - 100), TextFrac(Now - 100) }

\* the staging tables of n PENDING rows
RawTables(n) ==
    { [i \in 1..n |-> RawRow(i, ts[i])] : ts \in [1..n -> RawTimestamps] }

ForgiaturaTargetRow(id) == [table |-> "Forgiatura", src |-> id]

\* line 97: strptime(text, '%Y-%m-%d %H:%M:%S') raises ValueError on any text
\* that is not of that pattern; a datetime is not parsed
StrptimeRaises(ts) == ts.kind \notin {"native", "text"}

\* lines 92-111: the transformation of the fetched rows.  A row is skipped on
\* KeyError; a ValueError of strptime is not caught in the loop.
Transform(colnames, raw_data) ==
    [raises |-> /\ "timestamp_ricevuto" \in colnames
                /\ \E i \in DOMAIN raw_data : StrptimeRaises(raw_data[i].timestamp_ricevuto),
     transformed_data |-> IF NeededKeys \subseteq colnames
                          THEN [i \in DOMAIN raw_data |-> raw_data[i].id]
                          ELSE <<>>]

\* lines 57-60
EtlEnter ==
    /\ etl.pc = "idle"
    /\ etl_status' = EnterStatus(etl_status, 1)
    /\ etl' = [etl EXCEPT !.pc = "connect"]
    /\ UNCHANGED << runVars, trigVars, valVars, saveVars >>

\* lines 62-83: the two connections and their cursors; an exception goes to
\* the outer except clause (lines 181-183), past the finally of the inner try
EtlConnect(fail) ==
    /\ etl.pc = "connect"
    /\ CASE fail = "none" ->
              /\ etl' = [etl EXCEPT !.pg_conn = "open", !.pg_cursor = "open",
                                    !.my_conn = "open", !.my_cursor = "open",
                                    !.pc = "extract"]
              /\ UNCHANGED etl_status
         [] fail = "postgres" ->
              /\ etl' = [etl EXCEPT !.pc = "last"]
              /\ etl_status' = ErrorStatus(etl_status, DbErrorMsg)
         [] OTHER ->
              /\ etl' = [etl EXCEPT !.pg_conn = "open", !.pg_cursor = "open",
                                    !.pc = "last"]
              /\ etl_status' = ErrorStatus(etl_status, DbErrorMsg)
    /\ UNCHANGED << runVars, trigVars, valVars, saveVars >>

\* lines 85-113: the SELECT of the PENDING rows and the transformation; an
\* exception goes to the outer except clause
EtlExtract(fail) ==
    /\ etl.pc = "extract"
    /\ LET raw_data == SelectSeq(etl.raw, LAMBDA r : r.stato_processo = "PENDING")
           t == Transform(etl.colnames, raw_data)
       IN  IF fail \/ t.raises
           THEN /\ etl' = [etl EXCEPT !.pc = "last",
                                      !.raw_data = IF fail THEN <<>> ELSE raw_data]
                /\ etl_status' = ErrorStatus(etl_status, DbErrorMsg)
           ELSE /\ etl' = [etl EXCEPT !.pc = "load", !.raw_data = raw_data,
                                      !.transformed_data = t.transformed_data]
                /\ UNCHANGED etl_status
    /\ UNCHANGED << runVars, trigVars, valVars, saveVars >>

\* lines 132-144: processed_ids are the ids of all fetched rows; they are
\* updated to PROCESSED when there is at least one
MarkProcessed(raw, raw_data) ==
    LET processed_ids == { raw_data[i].id : i \in DOMAIN raw_data }
    IN  [i \in DOMAIN raw |->
            IF raw[i].id \in processed_ids
            THEN [raw[i] EXCEPT !.stato_processo = "PROCESSED"]
            ELSE raw[i]]

\* cursor.executemany(insert_query, transformed_data)
LoadRows(transformed_data) ==
    { ForgiaturaTargetRow(transformed_data[i]) : i \in DOMAIN transformed_data }

\* lines 116-164: the inner try and its except clauses
\*   ok            load, commit, update of the staging rows, commit, success
\*   load_error    executemany or my_conn.commit() raises (lines 123-124):
\*                 rollback on MySQL (line 153)
\*   update_error  the load is committed, the UPDATE of RawForgiatura or its
\*                 commit raises (lines 143-144): rollback on PostgreSQL
EtlLoad(outcome) ==
    /\ etl.pc = "load"
    /\ outcome \in {"ok", "load_error", "update_error"}
    /\ outcome = "update_error" => etl.raw_data # <<>>
    /\ etl' = [etl EXCEPT
                  !.pc = "finally",
                  !.fk = FkAfterBody("run_etl", outcome),
                  !.target = IF outcome = "load_error"
                             THEN Rollback(ExecuteMany(@, LoadRows(etl.transformed_data)))
                             ELSE Commit(ExecuteMany(@, LoadRows(etl.transformed_data))),
                  !.raw = IF outcome = "ok" THEN MarkProcessed(@, etl.raw_data) ELSE @]
    /\ etl_status' = IF outcome = "ok" THEN SuccessStatus(etl_status, 1)
                     ELSE ErrorStatus(etl_status, DbErrorMsg)
    /\ UNCHANGED << runVars, trigVars, valVars, saveVars >>

\* lines 166-179: the finally of the inner try closes cursors and connections
EtlFinally ==
    /\ etl.pc = "finally"
    /\ etl' = [etl EXCEPT !.pc = "last",
                          !.my_cursor = CloseConn(@), !.my_conn = CloseConn(@),
                          !.pg_cursor = CloseConn(@), !.pg_conn = CloseConn(@),
                          !.target = Close(@)]
    /\ UNCHANGED << etl_status, runVars, trigVars, valVars, saveVars >>

\* line 185: etl_status['running'] = False, and run_etl returns
EtlLast ==
    /\ etl.pc = "last"
    /\ etl' = [etl EXCEPT !.pc = "done"]
    /\ etl_status' = FinallyStatus(etl_status)
    /\ UNCHANGED << runVars, trigVars, valVars, saveVars >>

InitRunEtl ==
    /\ etl \in { [NoEtl EXCEPT !.colnames = c, !.raw = t] :
                    c \in ColnamesSets,
                    t \in UNION { RawTables(n) : n \in 0..MaxRows } }
    /\ save = NoSave
    /\ mysql = EmptyDb
    /\ vin = NoInput
    /\ vout = <<>>
    /\ app = "ETLPython"
    /\ req = <<>>
    /\ etl_status = InitStatus
    /\ raw_operazione = <<>>
    /\ pc = "idle"
    /\ raw_records = <<>>
    /\ idx = 1
    /\ ret = 0
    /\ pg_conn = "none"
    /\ my_conn = "none"
    /\ runs = 0
    /\ rows = <<>>
    /\ batch = "none"
    /\ fetched = FALSE
    /\ trace = <<>>
    /\ wrote = FALSE

NextRunEtl ==
    \/ EtlEnter
    \/ \E fail \in {"none", "postgres", "mysql"} : EtlConnect(fail)
    \/ \E fail \in BOOLEAN : EtlExtract(fail)
    \/ \E outcome \in {"ok", "load_error", "update_error"} : EtlLoad(outcome)
    \/ EtlFinally
    \/ EtlLast

SpecRunEtl == InitRunEtl /\ [][NextRunEtl]_vars

(***************************************************************************)
(* Reading the stores.                                                     *)
(***************************************************************************)
Committed(tbl) == { r \in mysql.committed : r.table = tbl }

\* committed operazioni rows that came from staging record src
OpsOf(src) == { r \in Committed("operazioni") : r.src = src }

DetailOf(tbl, id) == { r \in Committed(tbl) : r.id_operazione = id }

AnomalieOf(id) == { r \in Committed("anomalia_operazione") : r.id_operazione = id }

\* every committed row that belongs to staging record src
RowsFrom(src) ==
    OpsOf(src) \cup
    { r \in mysql.committed :
        /\ r.table # "operazioni"
        /\ \E op \in OpsOf(src) : op.id_operazione = r.id_operazione }

Returned(fn) == pc = "returned" /\ batch = fn

\* no database call of the run raised
NoFault == fetched /\ \A i \in DOMAIN trace : ~trace[i].fault

\* the record is valid as the specification words it: a recognized type, the
\* identifying fields present, both timestamps parseable and not beyond the
\* tolerance, and for a forging the weight in [0, 1000] and the temperature in
\* the band 700..1200
InRangeAsSpecified(data) ==
    /\ data.tipo_operazione \in {"forgiatura", "cnc"}
    /\ data.id_ordine # None
    /\ data.codice_pezzo # NoneStr
    /\ data.codice_macchinario # NoneStr
    /\ data.codice_operatore # NoneStr
    /\ \A ts \in {data.timestamp_inizio, data.timestamp_fine} :
          /\ ts.kind \in {"native", "text", "textfrac"}
          /\ ts.t <= Now + ToleranceMinutes
    /\ data.tipo_operazione = "forgiatura" =>
          /\ data.peso_effettivo # None
          /\ 0 <= data.peso_effettivo /\ data.peso_effettivo <= 1000
          /\ data.temperatura_effettiva # None
          /\ 700 <= data.temperatura_effettiva /\ data.temperatura_effettiva <= 1200
    /\ data.anomalia = <<>>

(***************************************************************************)
(* Properties.                                                             *)
(***************************************************************************)

\* C1: two trigger calls (POST /run-etl, POST /process-transfer) made while the
\* status is idle start exactly one batch: at no time are the bodies of two
\* batches started by triggers running, and every trigger but the first that
\* found the status idle is answered 400.
TriggerStarted(i) == StartsThread(app, req[i].endpoint) /\ req[i].fn # "none"

C1_OneBatchPerTriggerPair ==
    app = "server" =>
    /\ Cardinality({i \in DOMAIN req : TriggerStarted(i) /\ req[i].bpc = "body"}) <= 1
    /\ \A i, j \in DOMAIN req :
         /\ i < j
         /\ TriggerStarted(i)
         /\ StartsThread(app, req[j].endpoint)
         /\ req[i].bpc \in {"entry", "body"}
         /\ req[j].hpc = "done"
         => req[j].response = 400

C3_InvalidRecordPersisted ==
    (Returned("transfer") /\ NoFault) =>
        /\ Len(trace) = Len(raw_records)
        /\ \A i \in DOMAIN trace :
              trace[i].errors # <<>> =>
                 \E op \in OpsOf(trace[i].src) :
                    /\ op = OperazioniRow(op.id_operazione, trace[i].src,
                                          Sanitize(trace[i].data, trace[i].errors))
                    /\ Cardinality(AnomalieOf(op.id_operazione)) = Len(trace[i].errors)

\* C4: after the run has returned, the committed operation of a record with
\* violations has as many committed anomaly rows as it has violations, each
\* with the code of its field, wherever the record is in the batch.
C4_AnomalyRowsCommitted ==
    (Returned("transfer") /\ NoFault) =>
        \A i \in DOMAIN trace :
            ( /\ ~InRangeAsSpecified(trace[i].data)
              /\ trace[i].errors # <<>>
              /\ trace[i].success ) =>
                /\ Cardinality(AnomalieOf(trace[i].id_operazione)) = Len(trace[i].errors)
                /\ \A a \in AnomalieOf(trace[i].id_operazione) :
                      a.id_anomalia = FieldToAnomaliaIdGet(a.field)

\* C5: a record with a recognized type and every field present and in range
\* passes validation and is persisted as exactly one operation row, exactly one
\* detail row in the table of its type, and no anomaly row.
C5_ValidRecordLoadsClean ==
    (Returned("transfer") /\ NoFault) =>
        \A i \in DOMAIN trace :
            InRangeAsSpecified(trace[i].data) =>
                /\ trace[i].errors = <<>>
                /\ Cardinality(OpsOf(trace[i].src)) = 1
                /\ \A op \in OpsOf(trace[i].src) :
                      /\ Cardinality(DetailOf(trace[i].data.tipo_operazione,
                                              op.id_operazione)) = 1
                      /\ AnomalieOf(op.id_operazione) = {}
                      /\ \A a \in mysql.pending :
                            a.table = "anomalia_operazione" =>
                               a.id_operazione # op.id_operazione

\* C6: the forging record with weight 1500 and temperature 900 fails validation
\* with exactly one violation, on peso_effettivo; it is loaded with
\* peso_effettivo null and the temperature unchanged, and exactly one anomaly
\* row, with code 2, is written for it.
C6_ExampleOneViolation ==
    \A i \in DOMAIN trace :
        trace[i].data = ForgingHeavy =>
            /\ trace[i].errors = << "peso_effettivo" >>
            /\ (Returned("transfer") /\ NoFault) =>
                  /\ DetailOf("forgiatura", trace[i].id_operazione) =
                        { ForgiaturaRow(trace[i].id_operazione,
                                        [ForgingHeavy EXCEPT !.peso_effettivo = None]) }
                  /\ { a.id_anomalia : a \in AnomalieOf(trace[i].id_operazione) } = {2}
                  /\ Cardinality(AnomalieOf(trace[i].id_operazione)) = 1

\* C7: a run over an empty record set (an empty posted list, or no PENDING
\* staging row), with the stores reachable, returns 200 with no record
\* processed, issues no INSERT, UPDATE or DELETE and leaves both stores as
\* they were, sets last_success to the time of the run, and returns with
\* last_error = None and running = False.
C7_EmptyBatchSucceeds ==
    ( /\ pc = "returned"
      /\ fetched
      /\ \/ batch = "transfer" /\ raw_records = <<>>
         \/ batch = "ingest" /\ rows = <<>> ) =>
        /\ ret = 200
        /\ trace = <<>>
        /\ ~wrote
        /\ mysql = EmptyDb
        /\ \A i \in DOMAIN raw_operazione : raw_operazione[i].stato = "PENDING"
        /\ etl_status.last_success = runs
        /\ etl_status.last_run = runs
        /\ etl_status.last_error = NoneStr
        /\ ~etl_status.running

C7_Witness ==
    /\ pc = "returned"
    /\ fetched
    /\ batch = "transfer"
    /\ raw_records = <<>>
    /\ etl_status.last_success = 2

\* C8: a request that arrives at an entry point while etl_status['running'] is
\* true starts no batch and is answered 400, whatever the entry point
\* (/run-etl, /process-transfer, /insert-postgres, GET /run of ETLPython).
C8_RefusedWhileRunning ==
    \A i \in DOMAIN req :
        req[i].arrived_running =>
            /\ req[i].fn = "none"
            /\ req[i].hpc = "done" => req[i].response = 400

\* C9 (as stated): the statement that sets running to false is the final action
\* of the batch on every exit path: once a batch has cleared the flag, nothing
\* of that batch remains to be done.
C9_ClearIsFinalAction ==
    \A i \in DOMAIN req : req[i].cleared => req[i].bpc = "done"

\* C9 (amended): every batch that has ended, on whichever path (success,
\* record error, failed extraction, failed connection), has set running to
\* false; in run_etl that statement is the last one; and under fair scheduling
\* every batch that was started reaches the statement, which leaves
\* etl_status['running'] false.
C9_RunningClearedOnEveryPath ==
    /\ [](\A i \in DOMAIN req :
            /\ req[i].bpc = "done" => req[i].cleared
            /\ req[i].fn = "run_etl" /\ req[i].cleared => req[i].bpc = "done")
    /\ <>[](\A i \in DOMAIN req : req[i].fn # "none" => req[i].cleared)

\* a batch of the server has failed, has cleared the flag and has yet to close
\* its connection
C9_Witness ==
    \E i \in DOMAIN req :
        /\ req[i].fn = "main_etl_postgres"
        /\ req[i].ret = 500
        /\ req[i].cleared
        /\ req[i].bpc = "close"
        /\ req[i].conn = "open"
        /\ ~etl_status.running

C11_SuccessOnlyWithoutError ==
    pc = "returned" =>
        /\ etl_status.last_success = runs =>
              \A i \in DOMAIN trace : trace[i].outcome = "loaded"
        /\ etl_status.last_error = NoneStr =>
              \A i \in DOMAIN trace : trace[i].outcome = "loaded"
        /\ ret = 500 =>
              /\ etl_status.last_success < runs
              /\ etl_status.last_error = DbErrorMsg

\* C12: when a store cannot be reached at the start of the batch (a connect
\* call, or the SELECT of the PENDING rows, raises), the run returns 500 with
\* no record attempted and no INSERT, UPDATE or DELETE issued on either store,
\* last_error holds the message, last_success is as it was, and running is
\* False on return.
C12_ConnectionFailure ==
    (pc = "returned" /\ ~fetched) =>
        /\ ret = 500
        /\ trace = <<>>
        /\ ~wrote
        /\ mysql = EmptyDb
        /\ \A i \in DOMAIN raw_operazione : raw_operazione[i].stato = "PENDING"
        /\ etl_status.last_error = DbErrorMsg
        /\ etl_status.last_success < runs
        /\ etl_status.last_run = runs
        /\ ~etl_status.running

\* the MySQL connection could not be made after the PostgreSQL one was, with
\* rows PENDING in the staging table
C12_Witness ==
    /\ Returned("transfer")
    /\ ~fetched
    /\ pg_conn = "closed"
    /\ my_conn = "none"
    /\ Len(raw_operazione) > 0
    /\ etl_status.last_error = DbErrorMsg

\* the records of the posted list that main_etl_postgres inserted, and the
\* staging row of the k-th of them: the rows of a batch follow the rows the
\* table held before it
IngestedCount == Cardinality({ k \in DOMAIN trace : trace[k].outcome = "loaded" })

IngestedAt(k) == Len(raw_operazione) - IngestedCount + k

IngestedRowCommitted(k) ==
    /\ IngestedAt(k) \in DOMAIN raw_operazione
    /\ raw_operazione[IngestedAt(k)] =
          [id_operazione |-> IngestedAt(k), stato |-> "PENDING",
           id_anomalia |-> FirstAnomaliaId(trace[k].data).id,
           data |-> [trace[k].data EXCEPT !.anomalia = <<>>]]

C14_MalformedTriggerRejected ==
    \A i \in DOMAIN req :
        ( /\ app = "server"
          /\ req[i].endpoint = "/run-etl"
          /\ ~req[i].arrived_running
          /\ req[i].hpc = "done" ) =>
            IF req[i].body = "list"
            THEN req[i].response = 202 /\ req[i].fn = "main_etl_postgres"
            ELSE req[i].response = 400 /\ req[i].fn = "none"

\* C15: validation is idempotent: validating the dict() of a record that
\* passed validation reports no violation and returns the same dict.
C15_ValidationIdempotent ==
    \A k \in 2..Len(vout) :
        /\ vout[k].errors = <<>>
        /\ vout[k].dict = vout[k - 1].dict

\* the rows of operation id that are pending in the open transaction
PendingOf(id) == { r \in mysql.pending : r.id_operazione = id }

C17_RecordAllOrNothing ==
    Returned("transfer") =>
        \A i \in DOMAIN trace :
            (trace[i].fault \/ ~trace[i].success) =>
                \/ RowsFrom(trace[i].src) = {}
                \/ \E op \in OpsOf(trace[i].src) :
                      /\ OpsOf(trace[i].src) = {op}
                      /\ Cardinality(DetailOf("forgiatura", op.id_operazione) \cup
                                     DetailOf("cnc", op.id_operazione)) = 1
                      /\ Cardinality(AnomalieOf(op.id_operazione)) =
                            Len(trace[i].errors)

\* C18: a record whose operation type, after sanitizing, is neither forgiatura
\* nor cnc is refused before anything is inserted: no operation row of the
\* record exists, neither pending on the connection nor committed.
C18_UnknownTipoInsertsNothing ==
    \A i \in DOMAIN trace :
        ( /\ batch = "transfer"
          /\ OperazioneDictOf(trace[i].data).tipo_operazione \notin {"forgiatura", "cnc"} ) =>
            /\ ~trace[i].success
            /\ \A r \in mysql.pending \cup mysql.committed :
                  r.table = "operazioni" => r.src # trace[i].src

\* every row on the MySQL connection, pending or committed
AllRows == mysql.pending \cup mysql.committed

\* C19: the operation insert of a record precedes its detail insert and its
\* anomaly inserts: whenever a detail row or an anomaly row exists, pending or
\* committed, the operation row with its identifier exists, and an anomaly row
\* carries the identifier that the operation insert of its own record
\* generated, never None and never that of another record.
C19_OperationInsertFirst ==
    batch = "transfer" =>
        \A r \in AllRows :
            r.table # "operazioni" =>
                /\ r.id_operazione # None
                /\ \E op \in AllRows :
                      /\ op.table = "operazioni"
                      /\ op.id_operazione = r.id_operazione
                      /\ r.table = "anomalia_operazione" =>
                            \E i \in DOMAIN trace :
                                /\ trace[i].src = op.src
                                /\ trace[i].id_operazione = r.id_operazione
                                /\ \E k \in DOMAIN trace[i].errors :
                                      trace[i].errors[k] = r.field

\* two records loaded, the anomaly rows of the first committed with the second
C19_Witness ==
    /\ batch = "transfer"
    /\ Len(trace) = 2
    /\ trace[1].id_operazione # trace[2].id_operazione
    /\ AnomalieOf(trace[1].id_operazione) # {}
    /\ PendingOf(trace[2].id_operazione) # {}

\* C20: foreign key checks are disabled when a batch starts to load and are
\* enabled again on every path out of the batch: a batch that completed has
\* disabled them, and no batch has returned with the checks of its MySQL
\* session left disabled.
C20_ForeignKeysRestored ==
    \A i \in DOMAIN req :
        req[i].bpc = "done" =>
            /\ req[i].ret = 200 => req[i].fk_disabled
            /\ req[i].fk # "off"

\* the rule of field f as the validator's contract words it, on the dict d:
\* TRUE when d breaks it.  The weight and the temperature are required and
\* bounded for a forging only; an identifying field must be present.
BreaksRule(d, f) ==
    CASE f = "tipo_operazione" -> d.tipo_operazione \notin {"forgiatura", "cnc"}
      [] f = "peso_effettivo" ->
            /\ d.tipo_operazione = "forgiatura"
            /\ (d.peso_effettivo = None
                \/ ~(0 <= d.peso_effettivo /\ d.peso_effettivo <= 1000))
      [] f = "temperatura_effettiva" ->
            /\ d.tipo_operazione = "forgiatura"
            /\ (d.temperatura_effettiva = None
                \/ ~(700 <= d.temperatura_effettiva /\ d.temperatura_effettiva <= 1200))
      [] f \in {"timestamp_inizio", "timestamp_fine"} ->
            \/ d[f].kind = "garbage"
            \/ d[f].kind # "none" /\ d[f].t > Now + ToleranceMinutes
      [] f = "anomalia" -> \E i \in DOMAIN d.anomalia : d.anomalia[i] <= 0
      [] f \in IdentifyingFields -> d[f] = NoneOf(f)
      [] OTHER -> FALSE

\* the elements of a sequence
Range(seq) == { seq[i] : i \in DOMAIN seq }

\* a timestamp key is given a value or left out, never given None
TimestampsGiven(in) ==
    \A f \in {"timestamp_inizio", "timestamp_fine"} :
        f \in in.absent \/ in.data[f].kind # "none"

\* C21: every field is checked on its own and all violations are collected:
\* the fields the validation reports are exactly the fields of the record that
\* break their rule.
C21_AllViolationsCollected ==
    (vout # <<>> /\ TimestampsGiven(vin)) =>
        Range(vout[1].errors) =
            { f \in Range(FieldOrder) : BreaksRule(Supplied(vin.data, vin.absent), f) }

\* the record validated first is of the given type: the key is supplied
IsOfType(in, tipo) ==
    "tipo_operazione" \notin in.absent /\ in.data.tipo_operazione = tipo

\* C22: for a forging the weight is required and bounded by [0, 1000]: a
\* missing or null weight and a weight outside the range are each reported on
\* peso_effettivo, a weight inside the range is not; for a cnc record the
\* weight is never reported.
C22_WeightRequiredInRange ==
    vout # <<>> =>
        LET reported == "peso_effettivo" \in Range(vout[1].errors)
            v == vin.data.peso_effettivo
        IN  /\ IsOfType(vin, "forgiatura") =>
                (reported <=> \/ "peso_effettivo" \in vin.absent
                              \/ v = None
                              \/ ~(0 <= v /\ v <= 1000))
            /\ IsOfType(vin, "cnc") => ~reported

\* C23: for a forging the temperature is required and bounded by the band
\* 700..1200: a temperature inside the band is not reported, a missing
\* temperature and a temperature outside the band are reported on
\* temperatura_effettiva.
C23_TemperatureInBand ==
    (vout # <<>> /\ IsOfType(vin, "forgiatura")) =>
        LET reported == "temperatura_effettiva" \in Range(vout[1].errors)
            v == vin.data.temperatura_effettiva
        IN  reported <=> \/ "temperatura_effettiva" \in vin.absent
                         \/ v = None
                         \/ ~(700 <= v /\ v <= 1200)

\* C24: each identifying field must be present: a record in which one of them
\* is absent or null is reported on exactly that field.
C24_IdentifyingFieldsRequired ==
    vout # <<>> =>
        \A f \in IdentifyingFields :
            (f \in vin.absent \/ vin.data[f] = NoneOf(f)) => f \in Range(vout[1].errors)

PendingAnomalie == { r \in mysql.pending : r.table = "anomalia_operazione" }

SavedRows == save.records \cap mysql.committed

StagingRows == { raw_operazione[i] : i \in DOMAIN raw_operazione }

AttemptsOf(id) == { i \in DOMAIN trace : trace[i].src = id }

C29_RunningWhileExecuting ==
    app = "server" =>
        \A i \in DOMAIN req :
            ( /\ req[i].fn \in {"main_etl_postgres", "process_and_transfer_to_mysql"}
              /\ req[i].bpc = "body" ) => etl_status.running

\* C30: after process_and_transfer_to_mysql has returned, a staging record it
\* marked ERROR has no committed row in the target store: the operation row
\* inserted for a record whose load failed is not committed by the commit of a
\* later record of the run.
C30_ErrorRecordNotCommitted ==
    Returned("transfer") =>
        \A r \in StagingRows :
            r.stato = "ERROR" => RowsFrom(r.id_operazione) = {}

\* C31: each staging record produces at most one committed operation row: once
\* a run has returned, a record whose operation row is committed is not left
\* PENDING in staging, where the next run would select and load it again.
C31_LoadedAtMostOnce ==
    Returned("transfer") =>
        \A r \in StagingRows :
            /\ Cardinality(OpsOf(r.id_operazione)) <= 1
            /\ OpsOf(r.id_operazione) # {} => r.stato # "PENDING"

\* C32: in run_etl every staging row marked PROCESSED has its row inserted in
\* the target table: a row skipped in the transformation because of a missing
\* key is not marked PROCESSED.
C32_ProcessedRowsWereLoaded ==
    \A i \in DOMAIN etl.raw :
        etl.raw[i].stato_processo = "PROCESSED" =>
            ForgiaturaTargetRow(etl.raw[i].id) \in etl.target.committed

\* C33: every connection and cursor a batch run opened is closed by the time
\* the run has returned, on every exit path, the one where the first store
\* connects and the second connection fails included.
C33_ConnectionsClosedOnReturn ==
    etl.pc = "done" =>
        /\ etl.pg_conn # "open"
        /\ etl.pg_cursor # "open"
        /\ etl.my_conn # "open"
        /\ etl.my_cursor # "open"

====
